---------------------------- MODULE Spec2Model ----------------------------
(***************************************************************************)
(* A model of kuato's session recall: the two transcript extractors of     *)
(* shared/parser.ts (parseSessionContent for Claude Code JSONL,            *)
(* parseOpenCodeSession for OpenCode exports) and the file-based OpenCode  *)
(* search (scoreRelevance, matchesFilters, searchSessions).                *)
(*                                                                         *)
(* Strings are sequences of one-character strings, so that toLowerCase,    *)
(* includes, trim and split are computed rather than assumed.  An optional *)
(* JSON field is [def |-> FALSE] when absent and [def |-> TRUE, val |-> v] *)
(* when present.  A JS Set is a duplicate-free sequence in insertion order.*)
(* Timestamps are integers (days).                                         *)
(***************************************************************************)
EXTENDS Integers, Sequences, FiniteSets, TLC

VARIABLES
  pc,         \* position of the running program
  options,    \* SearchOptions of the current searchSessions call
  sessionIDs, \* the identifiers getAllSessionIDs returned
  i,          \* loop index of searchSessions (0-based, as in the code)
  results,    \* the results array of searchSessions
  lastExport, \* what `opencode export` did for the identifier just processed
  lastExit,   \* how the loop iteration just run ended
  returned,   \* the value searchSessions returned
  input,      \* the arguments of the function being called
  output,     \* what the call returned
  db,         \* the rows of the sessions table, by id
  existingHashes, \* the Map getExistingHashes returned to sync
  stats,      \* the SyncStats of the current sync call
  lastSync    \* result, session id and hash of the syncSession call just made

vars == <<pc, options, sessionIDs, i, results, lastExport, lastExit, returned, input, output,
          db, existingHashes, stats, lastSync>>

syncVars == <<db, existingHashes, stats, lastSync>>

\* no sync program is running
NoSync == db = <<>> /\ existingHashes = <<>> /\ stats = <<>> /\ lastSync = <<>>

-----------------------------------------------------------------------------
(* Bounds of the model *)

MaxSessions == 3
MaxTime == 3
MaxMessages == 2
MaxLines == 3

-----------------------------------------------------------------------------
(* Optional values, strings, sets *)

None == [def |-> FALSE]
Some(v) == [def |-> TRUE, val |-> v]

Min(a, b) == IF a <= b THEN a ELSE b
Max(a, b) == IF a >= b THEN a ELSE b

Lower(c) ==
  CASE c = "A" -> "a" [] c = "B" -> "b" [] c = "S" -> "s" [] c = "U" -> "u"
    [] OTHER -> c

toLowerCase(s) == [k \in 1..Len(s) |-> Lower(s[k])]

includes(s, t) == \E k \in 0..(Len(s) - Len(t)) : SubSeq(s, k + 1, k + Len(t)) = t

IsSpace(c) == c = " "

RECURSIVE trimStart(_)
trimStart(s) == IF s # <<>> /\ IsSpace(Head(s)) THEN trimStart(Tail(s)) ELSE s

RECURSIVE trimEnd(_)
trimEnd(s) ==
  IF s # <<>> /\ IsSpace(s[Len(s)]) THEN trimEnd(SubSeq(s, 1, Len(s) - 1)) ELSE s

trim(s) == trimEnd(trimStart(s))

\* s.split(/\s+/): the pieces between maximal whitespace runs, empty pieces kept
RECURSIVE splitWs(_, _, _)
splitWs(s, cur, inRun) ==
  IF s = <<>> THEN <<cur>>
  ELSE IF IsSpace(Head(s))
       THEN IF inRun THEN splitWs(Tail(s), cur, TRUE)
            ELSE <<cur>> \o splitWs(Tail(s), <<>>, TRUE)
       ELSE splitWs(Tail(s), Append(cur, Head(s)), FALSE)

\* .filter(Boolean) on an array of strings
filterBoolean(ss) == SelectSeq(ss, LAMBDA x : x # <<>>)

\* Set.prototype.add
setAdd(set, x) == IF \E k \in 1..Len(set) : set[k] = x THEN set ELSE Append(set, x)

Range(s) == {s[k] : k \in 1..Len(s)}

SeqsUpTo(S, n) == UNION {[1..k -> S] : k \in 0..n}

-----------------------------------------------------------------------------
(* shared/parser.ts: parseOpenCodeSession *)

\* What a parse call can do: raise (a TypeError escapes), return null, or
\* return a ParsedSession.
Threw == [tag |-> "threw"]
Null == [tag |-> "null"]
Session(s) == [tag |-> "session", val |-> s]

\* userMessages kept like the tool names, as a set: a text is added once
RECURSIVE collectParts_oncePerText(_, _)
collectParts_oncePerText(parts, userMessages) ==
  IF parts = <<>> THEN userMessages
  ELSE LET part == Head(parts) IN
       collectParts_oncePerText(Tail(parts),
         IF part.type = "text" /\ part.text.def /\ part.text.val # <<>>
         THEN setAdd(userMessages, part.text.val)
         ELSE userMessages)

\* the loop body's "Collect user messages": text parts of user envelopes
RECURSIVE collectParts(_, _)
collectParts(parts, userMessages) ==
  IF parts = <<>> THEN userMessages
  ELSE LET part == Head(parts) IN
       collectParts(Tail(parts),
         IF part.type = "text" /\ part.text.def /\ part.text.val # <<>>
         THEN Append(userMessages, part.text.val)
         ELSE userMessages)

\* "if (params.X) filesFromToolCalls.add(params.X)" for one of the three keys
addParam(files, p) == IF p.def /\ p.val # <<>> THEN setAdd(files, p.val) ELSE files

\* the loop body's "Collect tool calls"
RECURSIVE collectToolCalls(_, _)
collectToolCalls(toolCalls, acc) ==
  IF toolCalls = <<>> THEN acc
  ELSE LET toolCall == Head(toolCalls)
           files == IF toolCall.parameters.def
                    THEN LET params == toolCall.parameters.val IN
                         addParam(addParam(addParam(acc.files, params.filePath),
                                           params.path), params.file)
                    ELSE acc.files
       IN collectToolCalls(Tail(toolCalls),
            [tools |-> setAdd(acc.tools, toolCall.name), files |-> files])

\* for (const message of session.messages): acc.threw when message.info is
\* undefined (message.info.role raises)
RECURSIVE collectMessages(_, _)
collectMessages(messages, acc) ==
  IF messages = <<>> \/ acc.threw THEN acc
  ELSE LET message == Head(messages) IN
       IF ~message.info.def THEN [acc EXCEPT !.threw = TRUE]
       ELSE LET um == IF message.info.val.role = "user" /\ message.parts.def
                      THEN collectParts(message.parts.val, acc.userMessages)
                      ELSE acc.userMessages
                tf == IF message.toolCalls.def
                      THEN collectToolCalls(message.toolCalls.val,
                             [tools |-> acc.tools, files |-> acc.files])
                      ELSE [tools |-> acc.tools, files |-> acc.files]
                ms == IF message.info.val.model.def
                      THEN setAdd(acc.models, message.info.val.model.val)
                      ELSE acc.models
            IN collectMessages(Tail(messages),
                 [threw |-> FALSE, userMessages |-> um, tools |-> tf.tools,
                  files |-> tf.files, models |-> ms])

UntitledSession ==
  <<"U", "n", "t", "i", "t", "l", "e", "d", " ", "S", "e", "s", "s", "i", "o", "n">>

\* info.title passed through with no placeholder
parseOpenCodeSession_titleAsGiven(session) ==
  IF session.kind # "object" \/ ~session.messages.def THEN Threw
  ELSE LET acc == collectMessages(session.messages.val,
                    [threw |-> FALSE, userMessages |-> <<>>, tools |-> <<>>,
                     files |-> <<>>, models |-> <<>>])
       IN IF acc.threw THEN Threw
          ELSE IF ~session.info.def THEN Threw
          ELSE IF ~session.info.val.time.def THEN Threw
          ELSE LET info == session.info.val IN
               Session([id |-> info.id,
                        startedAt |-> info.time.val.created,
                        endedAt |-> info.time.val.updated,
                        title |-> info.title,
                        messageCount |-> Len(session.messages.val),
                        toolsUsed |-> acc.tools,
                        filesFromToolCalls |-> acc.files,
                        userMessages |-> acc.userMessages,
                        modelsUsed |-> acc.models,
                        inputTokens |-> 0,
                        outputTokens |-> 0,
                        cacheCreationTokens |-> 0,
                        cacheReadTokens |-> 0,
                        gitBranch |-> <<>>,
                        cwd |-> info.directory,
                        version |-> <<>>,
                        modelTokens |-> <<>>,
                        sessionType |-> "opencode"])

\* session: the JSON value JSON.parse gave (kind "object" or a truthy scalar)
parseOpenCodeSession(session) ==
  IF session.kind # "object" \/ ~session.messages.def THEN Threw
  ELSE LET acc == collectMessages(session.messages.val,
                    [threw |-> FALSE, userMessages |-> <<>>, tools |-> <<>>,
                     files |-> <<>>, models |-> <<>>])
       IN IF acc.threw THEN Threw
          ELSE IF ~session.info.def THEN Threw
          ELSE IF ~session.info.val.time.def THEN Threw
          ELSE LET info == session.info.val IN
               Session([id |-> info.id,
                        startedAt |-> info.time.val.created,
                        endedAt |-> info.time.val.updated,
                        title |-> IF info.title.def /\ info.title.val # <<>>
                                  THEN info.title
                                  ELSE Some(UntitledSession),
                        messageCount |-> Len(session.messages.val),
                        toolsUsed |-> acc.tools,
                        filesFromToolCalls |-> acc.files,
                        userMessages |-> acc.userMessages,
                        modelsUsed |-> acc.models,
                        inputTokens |-> 0,
                        outputTokens |-> 0,
                        cacheCreationTokens |-> 0,
                        cacheReadTokens |-> 0,
                        gitBranch |-> <<>>,
                        cwd |-> info.directory,
                        version |-> <<>>,
                        modelTokens |-> <<>>,
                        sessionType |-> "opencode"])

-----------------------------------------------------------------------------
(* shared/parser.ts: parseSessionContent, extractFromContentBlock,         *)
(* extractFilePaths                                                        *)

\* A transcript is a sequence of lines.  A line is empty, is not JSON
\* ("malformed"), or is the JSON value `value`: null, a scalar, or an object
\* with the fields of a SessionMessage, any of which may be missing.
\* A JSON object handed to a tool is a sequence of [key, value] entries; a
\* value is [t |-> "string", s |-> ...], [t |-> "object", o |-> entries] or
\* [t |-> "array", items |-> values].

FilePathKeys == {"file_path", "path", "file", "filename", "filePath"}

looksLikePath(value) == includes(value, <<"/">>) \/ includes(value, <<"\\">>)

\* the recursion without `!Array.isArray(value)`: the entries of an array are
\* its elements under their indices
RECURSIVE extractFilePaths_intoArrays(_, _)
extractFilePaths_intoArrays(inputObj, files) ==
  IF inputObj = <<>> THEN files
  ELSE LET entry == Head(inputObj)
           own == IF entry.key \in FilePathKeys /\ entry.value.t = "string"
                       /\ looksLikePath(entry.value.s)
                  THEN setAdd(files, entry.value.s)
                  ELSE files
           nested == IF entry.value.t = "object"
                     THEN extractFilePaths_intoArrays(entry.value.o, own)
                     ELSE IF entry.value.t = "array"
                     THEN extractFilePaths_intoArrays(
                            [k \in 1..Len(entry.value.items) |->
                               [key |-> "0", value |-> entry.value.items[k]]], own)
                     ELSE own
       IN extractFilePaths_intoArrays(Tail(inputObj), nested)

RECURSIVE extractFilePaths(_, _)
extractFilePaths(inputObj, files) ==
  IF inputObj = <<>> THEN files
  ELSE LET entry == Head(inputObj)
           own == IF entry.key \in FilePathKeys /\ entry.value.t = "string"
                       /\ looksLikePath(entry.value.s)
                  THEN setAdd(files, entry.value.s)
                  ELSE files
           nested == IF entry.value.t = "object"
                     THEN extractFilePaths(entry.value.o, own)
                     ELSE own
       IN extractFilePaths(Tail(inputObj), nested)

\* acc: [tools, files]
extractFromContentBlock(block, acc) ==
  IF block.type = "tool_use" /\ block.name.def /\ block.name.val # <<>>
  THEN [tools |-> setAdd(acc.tools, block.name.val),
        files |-> IF block.input.def
                  THEN extractFilePaths(block.input.val, acc.files)
                  ELSE acc.files]
  ELSE acc

RECURSIVE extractBlocks(_, _)
extractBlocks(blocks, acc) ==
  IF blocks = <<>> THEN acc
  ELSE extractBlocks(Tail(blocks), extractFromContentBlock(Head(blocks), acc))

\* usage.x || 0
orZero(n) == IF n.def THEN n.val ELSE 0

\* modelTokens is the sequence of its entries in insertion order
hasBucket(modelTokens, model) == \E k \in 1..Len(modelTokens) : modelTokens[k].model = model

initBucket(modelTokens, model) ==
  IF hasBucket(modelTokens, model) THEN modelTokens
  ELSE Append(modelTokens,
         [model |-> model, input |-> 0, output |-> 0, cacheCreation |-> 0, cacheRead |-> 0])

addToBucket(modelTokens, model, usage) ==
  [k \in 1..Len(modelTokens) |->
     IF modelTokens[k].model = model
     THEN [model |-> model,
           input |-> modelTokens[k].input + orZero(usage.input_tokens),
           output |-> modelTokens[k].output + orZero(usage.output_tokens),
           cacheCreation |-> modelTokens[k].cacheCreation
                               + orZero(usage.cache_creation_input_tokens),
           cacheRead |-> modelTokens[k].cacheRead + orZero(usage.cache_read_input_tokens)]
     ELSE modelTokens[k]]

\* the lines content.trim().split('\n').filter(Boolean) keeps
splitLines(content) == SelectSeq(content, LAMBDA line : line.kind # "empty")

\* the first loop with `break` where the code has `continue`: it stops at the
\* first line that is not JSON
RECURSIVE retainedEvents_stopAtMalformed(_)
retainedEvents_stopAtMalformed(lines) ==
  IF lines = <<>> \/ Head(lines).kind # "json" THEN <<>>
  ELSE LET line == Head(lines) IN
       (IF line.value.jkind = "object" /\ line.value.type.def
             /\ line.value.type.val \in {"user", "assistant"}
        THEN <<line.value>> ELSE <<>>)
       \o retainedEvents_stopAtMalformed(Tail(lines))

\* the first loop: JSON.parse each line in a try, keep user/assistant events
retainedEvents(lines) ==
  LET keep(line) == /\ line.kind = "json"
                    /\ line.value.jkind = "object"
                    /\ line.value.type.def
                    /\ line.value.type.val \in {"user", "assistant"}
      kept == SelectSeq(lines, keep)
  IN [k \in 1..Len(kept) |-> kept[k].value]

\* the body of the second loop for one event; acc.threw when msg.message is
\* undefined, so that reading a field of it raises
accumulate(acc, msg) ==
  IF ~msg.message.def THEN [acc EXCEPT !.threw = TRUE]
  ELSE LET m == msg.message.val IN
       IF msg.type.val = "user"
       THEN IF m.content.ctype = "string" /\ trim(m.content.text) # <<>>
            THEN [acc EXCEPT !.userMessages = Append(@, m.content.text)]
            ELSE acc
       ELSE LET named == m.model.def /\ m.model.val # <<>>
                withModel == IF named
                             THEN [acc EXCEPT !.models = setAdd(@, m.model.val),
                                              !.modelTokens = initBucket(@, m.model.val)]
                             ELSE acc
                withUsage ==
                  IF m.usage.def
                  THEN LET usage == m.usage.val IN
                       [withModel EXCEPT
                          !.inputTokens = @ + orZero(usage.input_tokens),
                          !.outputTokens = @ + orZero(usage.output_tokens),
                          !.cacheCreationTokens = @ + orZero(usage.cache_creation_input_tokens),
                          !.cacheReadTokens = @ + orZero(usage.cache_read_input_tokens),
                          !.modelTokens = IF named THEN addToBucket(@, m.model.val, usage)
                                          ELSE @]
                  ELSE withModel
                tf == IF m.content.ctype = "array"
                      THEN extractBlocks(m.content.blocks,
                             [tools |-> withUsage.tools, files |-> withUsage.files])
                      ELSE [tools |-> withUsage.tools, files |-> withUsage.files]
            IN [withUsage EXCEPT !.tools = tf.tools, !.files = tf.files]

RECURSIVE accumulateAll(_, _)
accumulateAll(acc, messages) ==
  IF messages = <<>> \/ acc.threw THEN acc
  ELSE accumulateAll(accumulate(acc, Head(messages)), Tail(messages))

Unknown == <<"u", "n", "k", "n", "o", "w", "n">>

\* the two first operands of the || chain swapped: the sessionId of the first
\* event before the name of the file
deriveId_eventFirst(pathId, firstMessage) ==
  IF firstMessage.sessionId.def /\ firstMessage.sessionId.val # <<>>
  THEN firstMessage.sessionId.val
  ELSE IF pathId.def THEN pathId.val
       ELSE Unknown

\* sessionId?.match(/([a-f0-9-]{36})\.jsonl$/)?.[1] || firstMessage.sessionId
\* || 'unknown'; pathId is the match, if the path has one
deriveId(pathId, firstMessage) ==
  IF pathId.def THEN pathId.val
  ELSE IF firstMessage.sessionId.def /\ firstMessage.sessionId.val # <<>>
       THEN firstMessage.sessionId.val
       ELSE Unknown

orDefault(field, default) == IF field.def /\ field.val # <<>> THEN field.val ELSE default

\* the rest of parseSessionContent once some events are retained
buildSession(messages, pathId) ==
  LET firstMessage == messages[1]
      lastMessage == messages[Len(messages)]
      acc == accumulateAll(
               [threw |-> FALSE, userMessages |-> <<>>, tools |-> <<>>,
                files |-> <<>>, models |-> <<>>, inputTokens |-> 0,
                outputTokens |-> 0, cacheCreationTokens |-> 0,
                cacheReadTokens |-> 0, modelTokens |-> <<>>],
               messages)
  IN IF acc.threw THEN Threw
     ELSE Session([id |-> Some(deriveId(pathId, firstMessage)),
                   startedAt |-> firstMessage.timestamp,
                   endedAt |-> lastMessage.timestamp,
                   gitBranch |-> orDefault(firstMessage.gitBranch, Unknown),
                   cwd |-> Some(orDefault(firstMessage.cwd, <<>>)),
                   version |-> orDefault(firstMessage.version, <<>>),
                   messageCount |-> Len(messages),
                   inputTokens |-> acc.inputTokens,
                   outputTokens |-> acc.outputTokens,
                   cacheCreationTokens |-> acc.cacheCreationTokens,
                   cacheReadTokens |-> acc.cacheReadTokens,
                   userMessages |-> acc.userMessages,
                   toolsUsed |-> acc.tools,
                   filesFromToolCalls |-> acc.files,
                   modelsUsed |-> acc.models,
                   modelTokens |-> acc.modelTokens,
                   title |-> None,
                   sessionType |-> "claude-code"])

\* parseSessionContent with an empty-session check of its own: null when no
\* user text was collected
parseSessionContent_nullWithoutUserText(content, pathId) ==
  LET lines == splitLines(content) IN
  IF Len(lines) = 0 THEN Null
  ELSE LET messages == retainedEvents(lines) IN
       IF Len(messages) = 0 THEN Null
       ELSE LET built == buildSession(messages, pathId) IN
            IF built.tag = "session" /\ Len(built.val.userMessages) = 0 THEN Null
            ELSE built

parseSessionContent(content, pathId) ==
  LET lines == splitLines(content) IN
  IF Len(lines) = 0 THEN Null
  ELSE LET messages == retainedEvents(lines) IN
       IF Len(messages) = 0 THEN Null
       ELSE buildSession(messages, pathId)

-----------------------------------------------------------------------------
(* file-based/search-opencode.ts: exportSession, scoreRelevance,           *)
(* matchesFilters, searchSessions                                          *)

\* What `opencode export <id>` did: the command failed, printed text that is
\* not JSON, or printed the JSON value `value`.
ExecThrows == [exec |-> "throws"]
Unparseable == [exec |-> "unparseable"]
Printed(v) == [exec |-> "json", value |-> v]

\* the JS null exportSession returns from its catch
JsNull == [kind |-> "null"]

\* exportSession without its try/catch turned into a null: the failure comes
\* back as a value the caller goes on to parse
exportSession_failureNotNull(outcome) ==
  IF outcome.exec = "json" THEN outcome.value
  ELSE [kind |-> "scalar", info |-> None, messages |-> None]

exportSession(outcome) ==
  IF outcome.exec = "json" THEN outcome.value ELSE JsNull

\* !rawSession: null, and the falsy JSON values 0, false, ""
falsy(raw) == raw.kind \in {"null", "falsy"}

\* a number returned, or a TypeError raised
Returned(n) == [raised |-> FALSE, value |-> n]
Raised == [raised |-> TRUE]

\* the split pieces taken as terms with the empty ones left in
queryTerms_keepEmpty(query) == splitWs(toLowerCase(query), <<>>, FALSE)

queryTerms(query) == filterBoolean(splitWs(toLowerCase(query), <<>>, FALSE))

\* the weight added once per occurrence of the term instead of once per field
RECURSIVE scoreField_perOccurrence(_, _, _)
scoreField_perOccurrence(fieldLower, terms, w) ==
  IF terms = <<>> THEN 0
  ELSE w * Cardinality({k \in 0..(Len(fieldLower) - Len(Head(terms))) :
                          SubSeq(fieldLower, k + 1, k + Len(Head(terms))) = Head(terms)})
       + scoreField_perOccurrence(fieldLower, Tail(terms), w)

\* the weight earned only by a field that is the term itself
RECURSIVE scoreField_exactMatch(_, _, _)
scoreField_exactMatch(fieldLower, terms, w) ==
  IF terms = <<>> THEN 0
  ELSE (IF fieldLower = Head(terms) THEN w ELSE 0)
       + scoreField_exactMatch(fieldLower, Tail(terms), w)

\* for (const term of queryTerms) if (fieldLower.includes(term)) score += w
RECURSIVE scoreField(_, _, _)
scoreField(fieldLower, terms, w) ==
  IF terms = <<>> THEN 0
  ELSE (IF includes(fieldLower, Head(terms)) THEN w ELSE 0)
       + scoreField(fieldLower, Tail(terms), w)

\* for (const x of list) { the term loop over x.toLowerCase() }
RECURSIVE scoreList(_, _, _)
scoreList(list, terms, w) ==
  IF list = <<>> THEN 0
  ELSE scoreField(toLowerCase(Head(list)), terms, w) + scoreList(Tail(list), terms, w)

\* scoreRelevance without its first line: an empty query is scored like any other
scoreRelevance_noEarlyReturn(session, query) ==
  LET terms == IF query.def THEN queryTerms(query.val) ELSE <<>> IN
  IF ~session.cwd.def THEN Raised
  ELSE Returned((IF session.title.def /\ session.title.val # <<>>
                 THEN scoreField(toLowerCase(session.title.val), terms, 15) ELSE 0)
         + scoreList(session.userMessages, terms, 10)
         + scoreField(toLowerCase(session.cwd.val), terms, 5)
         + scoreList(session.toolsUsed, terms, 3)
         + scoreList(session.filesFromToolCalls, terms, 3))

scoreRelevance(session, query) ==
  IF ~query.def \/ query.val = <<>> THEN Returned(1)
  ELSE LET terms == queryTerms(query.val)
           title == IF session.title.def /\ session.title.val # <<>>
                    THEN scoreField(toLowerCase(session.title.val), terms, 15)
                    ELSE 0
           msgs == scoreList(session.userMessages, terms, 10)
       IN IF ~session.cwd.def THEN Raised
          ELSE Returned(title + msgs
                 + scoreField(toLowerCase(session.cwd.val), terms, 5)
                 + scoreList(session.toolsUsed, terms, 3)
                 + scoreList(session.filesFromToolCalls, terms, 3))

Now == MaxTime

\* new Date(Date.now() - options.days * 24 * 60 * 60 * 1000), in days
cutoff(days) == Now - days

\* a requested tool has to equal a tool of the session, case ignored
hasMatchingTool_exactMatch(session, tools) ==
  \E a \in 1..Len(tools) : \E b \in 1..Len(session.toolsUsed) :
    toLowerCase(session.toolsUsed[b]) = toLowerCase(tools[a])

\* options.tools.some(tool => session.toolsUsed.some(t => ...includes...))
hasMatchingTool(session, tools) ==
  \E a \in 1..Len(tools) : \E b \in 1..Len(session.toolsUsed) :
    includes(toLowerCase(session.toolsUsed[b]), toLowerCase(tools[a]))

\* the file paths compared without lowercasing them
hasMatchingFile_caseSensitive(session, filePattern) ==
  \E b \in 1..Len(session.filesFromToolCalls) :
    includes(session.filesFromToolCalls[b], toLowerCase(filePattern))

\* session.filesFromToolCalls.some(f => f.toLowerCase().includes(pattern))
hasMatchingFile(session, filePattern) ==
  \E b \in 1..Len(session.filesFromToolCalls) :
    includes(toLowerCase(session.filesFromToolCalls[b]), toLowerCase(filePattern))

\* the two ends of the date window compared with <= and >=
matchesFilters_exclusiveWindow(session, opts) ==
  /\ ~(opts.since.def /\ session.endedAt <= opts.since.val)
  /\ ~(opts.until.def /\ session.endedAt >= opts.until.val)
  /\ ~(opts.days.def /\ opts.days.val # 0 /\ session.endedAt < cutoff(opts.days.val))
  /\ (opts.tools.def /\ Len(opts.tools.val) > 0) =>
       hasMatchingTool(session, opts.tools.val)
  /\ (opts.filePattern.def /\ opts.filePattern.val # <<>>) =>
       hasMatchingFile(session, opts.filePattern.val)

\* a since / until Date is truthy whatever its value; days 0, an empty tools
\* list and an empty pattern are falsy
matchesFilters(session, opts) ==
  /\ ~(opts.since.def /\ session.endedAt < opts.since.val)
  /\ ~(opts.until.def /\ session.endedAt > opts.until.val)
  /\ ~(opts.days.def /\ opts.days.val # 0 /\ session.endedAt < cutoff(opts.days.val))
  /\ (opts.tools.def /\ Len(opts.tools.val) > 0) =>
       hasMatchingTool(session, opts.tools.val)
  /\ (opts.filePattern.def /\ opts.filePattern.val # <<>>) =>
       hasMatchingFile(session, opts.filePattern.val)

\* options.query ? ... : ...
queryGiven(opts) == opts.query.def /\ opts.query.val # <<>>

\* the zero-relevance skip left out
retain_keepZero(opts, relevance) == TRUE

\* "Skip zero-relevance matches when searching": TRUE when the session is kept
retain(opts, relevance) == ~(queryGiven(opts) /\ relevance = 0)

\* the loop without "Skip empty sessions"
searchIteration_keepEmpty(res, outcome, opts) ==
  LET rawSession == exportSession(outcome) IN
  IF falsy(rawSession) THEN [exit |-> "noRaw", results |-> res]
  ELSE LET p == parseOpenCodeSession(rawSession) IN
       IF p.tag = "threw" THEN [exit |-> "raised", results |-> res]
       ELSE LET session == p.val IN
            IF FALSE THEN [exit |-> "empty", results |-> res]
            ELSE IF ~matchesFilters(session, opts)
            THEN [exit |-> "filtered", results |-> res]
            ELSE LET relevance == IF queryGiven(opts)
                                  THEN scoreRelevance(session, opts.query)
                                  ELSE Returned(1)
                 IN IF relevance.raised THEN [exit |-> "raised", results |-> res]
                    ELSE IF ~retain(opts, relevance.value)
                    THEN [exit |-> "zeroRelevance", results |-> res]
                    ELSE [exit |-> "pushed",
                          results |-> Append(res,
                            session @@ [relevance |-> relevance.value])]

\* One iteration of the for loop of searchSessions over one identifier.
\* exit names the way the iteration ended: the `continue` it took ("noRaw",
\* "empty", "filtered", "zeroRelevance"), "pushed", or "raised" when an error
\* left the loop; results is the array after the iteration.
searchIteration(res, outcome, opts) ==
  LET rawSession == exportSession(outcome) IN
  IF falsy(rawSession) THEN [exit |-> "noRaw", results |-> res]
  ELSE LET p == parseOpenCodeSession(rawSession) IN
       IF p.tag = "threw" THEN [exit |-> "raised", results |-> res]
       ELSE LET session == p.val IN
            IF Len(session.userMessages) = 0 THEN [exit |-> "empty", results |-> res]
            ELSE IF ~matchesFilters(session, opts)
            THEN [exit |-> "filtered", results |-> res]
            ELSE LET relevance == IF queryGiven(opts)
                                  THEN scoreRelevance(session, opts.query)
                                  ELSE Returned(1)
                 IN IF relevance.raised THEN [exit |-> "raised", results |-> res]
                    ELSE IF ~retain(opts, relevance.value)
                    THEN [exit |-> "zeroRelevance", results |-> res]
                    ELSE [exit |-> "pushed",
                          results |-> Append(res,
                            session @@ [relevance |-> relevance.value])]

\* the tie-break with its operands swapped: oldest first
compareResults_oldestFirst(a, b) ==
  IF a.relevance # b.relevance THEN b.relevance - a.relevance
  ELSE a.endedAt - b.endedAt

\* the comparator handed to results.sort
compareResults(a, b) ==
  IF a.relevance # b.relevance THEN b.relevance - a.relevance
  ELSE b.endedAt - a.endedAt

\* Array.prototype.sort is stable: x goes after every element that does not
\* compare greater than it
RECURSIVE insertSorted(_, _)
insertSorted(sorted, x) ==
  IF sorted = <<>> THEN <<x>>
  ELSE IF compareResults(Head(sorted), x) > 0
       THEN <<x>> \o sorted
       ELSE <<Head(sorted)>> \o insertSorted(Tail(sorted), x)

RECURSIVE sortResults(_)
sortResults(res) ==
  IF res = <<>> THEN <<>>
  ELSE insertSorted(sortResults(SubSeq(res, 1, Len(res) - 1)), res[Len(res)])

DefaultLimit == 20

\* Array.prototype.slice(0, limit); a negative limit counts from the end
slice(res, limit) ==
  IF limit >= 0 THEN SubSeq(res, 1, Min(limit, Len(res)))
  ELSE SubSeq(res, 1, Max(0, Len(res) + limit))

\* const limit = options.limit || 20
effectiveLimit(opts) ==
  IF opts.limit.def /\ opts.limit.val # 0 THEN opts.limit.val ELSE DefaultLimit

-----------------------------------------------------------------------------
(* The inputs the model draws from *)

TextPart(text) == [type |-> "text", text |-> Some(text)]

UserEnvelope(parts) ==
  [info |-> Some([role |-> "user", model |-> None]),
   parts |-> parts, toolCalls |-> None]

Params(filePath, path, file) == [filePath |-> filePath, path |-> path, file |-> file]

ToolEnvelope(name, parameters) ==
  [info |-> Some([role |-> "assistant", model |-> Some(<<"m", "1">>)]),
   parts |-> None,
   toolCalls |-> Some(<<[name |-> name, parameters |-> parameters]>>)]

uAA == UserEnvelope(Some(<<TextPart(<<"a", "a">>)>>))
uAb == UserEnvelope(Some(<<TextPart(<<"A", "b">>), TextPart(<<>>)>>))
uX == UserEnvelope(Some(<<TextPart(<<"x">>)>>))
tRead == ToolEnvelope(<<"A", "b">>, Some(Params(Some(<<"a", "/", "B">>), None, None)))
tBare == ToolEnvelope(<<"b">>, Some(Params(None, None, Some(<<"a", "b">>))))

Export(id, title, directory, time, messages) ==
  [kind |-> "object",
   info |-> Some([id |-> id, title |-> title, directory |-> directory, time |-> time]),
   messages |-> messages]

Times(u) == Some([created |-> 1, updated |-> u])

\* JSON values `opencode export` can print that searchSessions processes
\* without raising when no query is given
GoodExports ==
  {Export(Some(<<"s", "1">>), Some(<<"A", "b">>), Some(<<"a", "/", "b">>), Times(u), Some(<<uAA>>))
     : u \in {1, MaxTime}}
  \cup {Export(Some(<<"s", "2">>), None, Some(<<"x">>), Times(u), Some(<<uAb, tRead>>))
     : u \in {1, MaxTime}}
  \cup {Export(Some(<<"s", "3">>), Some(<<"x">>), Some(<<>>), Times(2), Some(<<uX, tBare>>)),
        \* no user text: an empty session
        Export(Some(<<"s", "4">>), Some(<<"a">>), Some(<<"a">>), Times(2), Some(<<tRead>>)),
        \* no info.directory
        Export(Some(<<"s", "5">>), Some(<<"A", "b">>), None, Times(2), Some(<<uAb>>)),
        \* the falsy JSON values null, 0, false, ""
        [kind |-> "falsy", info |-> None, messages |-> None]}

\* JSON values that lack what parseOpenCodeSession reads
BadExports ==
  {[kind |-> "scalar", info |-> None, messages |-> None],
   [kind |-> "object", info |-> None, messages |-> None],
   [kind |-> "object", info |-> None, messages |-> Some(<<uAA>>)],
   Export(Some(<<"s", "6">>), None, None, Times(1), None),
   Export(Some(<<"s", "7">>), None, Some(<<"a">>), None, Some(<<uAA>>)),
   Export(Some(<<"s", "8">>), None, Some(<<"a">>), Times(1),
          Some(<<[info |-> None, parts |-> None, toolCalls |-> None]>>))}

ExportOutcomes ==
  {ExecThrows, Unparseable} \cup {Printed(v) : v \in GoodExports \cup BadExports}

NoFilters(query, limit) ==
  [query |-> query, limit |-> limit, since |-> None, until |-> None,
   days |-> None, tools |-> None, filePattern |-> None]

Queries ==
  {None, Some(<<>>), Some(<<" ">>), Some(<<"a">>), Some(<<"A", " ", " ", "b">>),
   Some(<<"a", " ", "a">>), Some(<<"x">>)}

Limits == {None, Some(0), Some(1), Some(2)}

SearchOptions ==
  {NoFilters(q, l) : q \in Queries, l \in Limits}
  \cup {[NoFilters(q, None) EXCEPT !.since = Some(2)] : q \in {None, Some(<<"a">>)}}
  \cup {[NoFilters(q, None) EXCEPT !.until = Some(1)] : q \in {None, Some(<<"a">>)}}
  \cup {[NoFilters(q, None) EXCEPT !.days = Some(1)] : q \in {None, Some(<<"a">>)}}
  \cup {[NoFilters(q, None) EXCEPT !.tools = Some(<<<<"B">>>>)] : q \in {None, Some(<<"a">>)}}
  \cup {[NoFilters(q, None) EXCEPT !.filePattern = Some(<<"/", "b">>)]
          : q \in {None, Some(<<"a">>)}}

\* Lines of a Claude Code transcript
Event(type, message, sessionId, timestamp) ==
  [kind |-> "json",
   value |-> [jkind |-> "object", type |-> type, message |-> message,
              sessionId |-> sessionId, timestamp |-> timestamp,
              cwd |-> Some(<<"a", "/", "b">>), gitBranch |-> None, version |-> None]]

UserMessage(content) == Some([content |-> content, model |-> None, usage |-> None])

AssistantMessage(model, usage, content) ==
  Some([content |-> content, model |-> model, usage |-> usage])

TextContent(text) == [ctype |-> "string", text |-> text]
Blocks(blocks) == [ctype |-> "array", blocks |-> blocks]

Usage(inp, out, cc, cr) ==
  Some([input_tokens |-> inp, output_tokens |-> out,
        cache_creation_input_tokens |-> cc, cache_read_input_tokens |-> cr])

Str(s) == [t |-> "string", s |-> s]
Obj(o) == [t |-> "object", o |-> o]
Arr(items) == [t |-> "array", items |-> items]

ToolUse(name, inputObj) == [type |-> "tool_use", name |-> name, input |-> inputObj]

ReadInput == <<[key |-> "file_path", value |-> Str(<<"a", "/", "b">>)]>>

EditInput ==
  <<[key |-> "path", value |-> Str(<<"a", "b">>)],
    [key |-> "options",
     value |-> Obj(<<[key |-> "target",
                      value |-> Obj(<<[key |-> "file", value |-> Str(<<"b", "\\", "a">>)]>>)]>>)],
    [key |-> "edits",
     value |-> Arr(<<Obj(<<[key |-> "file_path", value |-> Str(<<"x", "/">>)]>>)>>)],
    [key |-> "content", value |-> Str(<<"a", "/", "x">>)]>>

TranscriptLines ==
  {[kind |-> "empty"],
   [kind |-> "malformed"],
   [kind |-> "json", value |-> [jkind |-> "null"]],
   Event(Some("summary"), None, None, 1),
   Event(None, UserMessage(TextContent(<<"x">>)), None, 1),
   Event(Some("user"), UserMessage(TextContent(<<"A", "b">>)), Some(<<"e", "1">>), 1),
   Event(Some("user"), UserMessage(TextContent(<<" ">>)), None, 2),
   Event(Some("user"), UserMessage(Blocks(<<>>)), Some(<<"e", "2">>), 2),
   Event(Some("user"), None, None, 2),
   Event(Some("assistant"),
         AssistantMessage(Some(<<"m", "1">>), Usage(Some(1), Some(2), None, Some(1)),
                          Blocks(<<ToolUse(Some(<<"A", "b">>), Some(ReadInput))>>)),
         None, 2),
   Event(Some("assistant"),
         AssistantMessage(None, Usage(Some(1), None, None, None), TextContent(<<"x">>)),
         None, MaxTime),
   Event(Some("assistant"),
         AssistantMessage(Some(<<"m", "2">>), None,
                          Blocks(<<[type |-> "text", name |-> None, input |-> None],
                                   ToolUse(Some(<<"b">>), Some(EditInput)),
                                   ToolUse(None, Some(ReadInput))>>)),
         Some(<<"e", "1">>), MaxTime),
   Event(Some("assistant"),
         AssistantMessage(Some(<<"m", "1">>), Usage(Some(2), Some(0), Some(1), None),
                          Blocks(<<>>)),
         None, MaxTime)}

\* the UUID-shaped name of the transcript file, if it has one
PathIds == {None, Some(<<"f", "1">>)}

JsonlInputs ==
  {[format |-> "jsonl", content |-> c, pathId |-> pid]
     : c \in SeqsUpTo(TranscriptLines, MaxLines), pid \in PathIds}

\* Message envelopes of an OpenCode export
Envelopes ==
  {uAA, uAb, uX, tRead, tBare,
   UserEnvelope(None),
   UserEnvelope(Some(<<[type |-> "image", text |-> None]>>)),
   [info |-> None, parts |-> None, toolCalls |-> None]}

OpenCodeInputs ==
  {[format |-> "opencode", session |-> v] : v \in GoodExports \cup BadExports}
  \cup {[format |-> "opencode", session |-> Export(id, t, d, Times(2), Some(m))]
          : id \in {None, Some(<<"s", "1">>)},
            t \in {None, Some(<<>>), Some(<<"A", "b">>)},
            d \in {None, Some(<<"a", "/", "b">>)},
            m \in SeqsUpTo(Envelopes, MaxMessages)}

-----------------------------------------------------------------------------
(* searchSessions as a state machine *)

\* no function call is under way
NoCall == input = <<>> /\ output = <<>>

Init ==
  /\ pc = "start"
  /\ options \in SearchOptions
  /\ sessionIDs = <<>>
  /\ i = 0
  /\ results = <<>>
  /\ lastExport = "none"
  /\ lastExit = "none"
  /\ returned = <<>>
  /\ NoCall
  /\ NoSync

\* getAllSessionIDs: the identifiers `opencode session list` printed, or []
\* when the command fails
Enumerate ==
  /\ pc = "start"
  /\ \E n \in 0..MaxSessions, listed \in BOOLEAN :
       sessionIDs' = IF listed THEN [k \in 1..n |-> k] ELSE <<>>
  /\ pc' = "loop"
  /\ UNCHANGED <<options, i, results, lastExport, lastExit, returned, input, output>>
  /\ UNCHANGED syncVars

\* one iteration of the for loop
Iterate ==
  /\ pc = "loop"
  /\ i < Len(sessionIDs)
  /\ \E outcome \in ExportOutcomes :
       LET it == searchIteration(results, outcome, options) IN
       /\ lastExport' = outcome.exec
       /\ lastExit' = it.exit
       /\ results' = it.results
       /\ pc' = IF it.exit = "raised" THEN "threw" ELSE "loop"
  /\ i' = i + 1
  /\ UNCHANGED <<options, sessionIDs, returned, input, output>>
  /\ UNCHANGED syncVars

\* results.sort(...); return results.slice(0, limit)
Return ==
  /\ pc = "loop"
  /\ i = Len(sessionIDs)
  /\ returned' = slice(sortResults(results), effectiveLimit(options))
  /\ pc' = "done"
  /\ UNCHANGED <<options, sessionIDs, i, results, lastExport, lastExit, input, output>>
  /\ UNCHANGED syncVars

Next == Enumerate \/ Iterate \/ Return

Spec == Init /\ [][Next]_vars

-----------------------------------------------------------------------------
(* Properties of searchSessions *)

\* The terms of a query, read off the lowercased query itself: the maximal
\* runs of non-whitespace characters, one <<first, last>> pair per run.
TermSpans(q) ==
  {sp \in (1..Len(q)) \X (1..Len(q)) :
     /\ sp[1] <= sp[2]
     /\ \A k \in sp[1]..sp[2] : ~IsSpace(q[k])
     /\ (sp[1] = 1 \/ IsSpace(q[sp[1] - 1]))
     /\ (sp[2] = Len(q) \/ IsSpace(q[sp[2] + 1]))}

TermAt(q, sp) == toLowerCase(SubSeq(q, sp[1], sp[2]))

Contains(text, term) == includes(toLowerCase(text), term)

\* term occurs in the title, a user message, the working directory, a tool
\* name or a touched file path of session r
TermAppears(r, term) ==
  \/ r.title.def /\ Contains(r.title.val, term)
  \/ \E k \in 1..Len(r.userMessages) : Contains(r.userMessages[k], term)
  \/ r.cwd.def /\ Contains(r.cwd.val, term)
  \/ \E k \in 1..Len(r.toolsUsed) : Contains(r.toolsUsed[k], term)
  \/ \E k \in 1..Len(r.filesFromToolCalls) : Contains(r.filesFromToolCalls[k], term)

\* C3: in the list searchSessions returns, an earlier entry has a strictly
\* greater relevance than a later one, or the same relevance and an endedAt
\* that is not earlier.
C3_SortOrder ==
  pc = "done" =>
    \A a, b \in 1..Len(returned) :
      a < b =>
        \/ returned[a].relevance > returned[b].relevance
        \/ /\ returned[a].relevance = returned[b].relevance
           /\ returned[a].endedAt >= returned[b].endedAt

C3_Witness ==
  /\ pc = "done"
  /\ Len(returned) >= 3
  /\ \E a, b \in 1..Len(returned) :
       a < b /\ returned[a].relevance > returned[b].relevance
         /\ returned[a].endedAt < returned[b].endedAt
  /\ \E a, b \in 1..Len(returned) :
       a < b /\ returned[a].relevance = returned[b].relevance
         /\ returned[a].endedAt > returned[b].endedAt
  \* the later session was fetched first: the sort moved it
  /\ \E a, b \in 1..Len(results) :
       a < b /\ results[a].relevance = results[b].relevance
         /\ results[a].endedAt < results[b].endedAt

\* C4: with a non-empty query, every session in the result of searchSessions
\* (and in the results array at any time) has at least one query term in its
\* title, a user message, its working directory, a tool name or a file path;
\* a session with none is left out, not ranked last.
C4_ZeroScoreExcluded ==
  queryGiven(options) =>
    /\ \A k \in 1..Len(results) :
         \E sp \in TermSpans(options.query.val) :
           TermAppears(results[k], TermAt(options.query.val, sp))
    /\ \A k \in 1..Len(returned) :
         \E sp \in TermSpans(options.query.val) :
           TermAppears(returned[k], TermAt(options.query.val, sp))

C4_Witness ==
  /\ pc = "done"
  /\ queryGiven(options)
  /\ lastExit = "zeroRelevance"
  /\ Len(returned) >= 1

\* C8: no error raised while processing one session leaves the loop of
\* searchSessions: the run never ends with an uncaught error.
C8_NoErrorEscapes == pc # "threw"

\* C9: an export that fails (the command throws, or prints what is not JSON)
\* adds nothing to the results and does not stop the loop: the iteration
\* leaves results as they were and the loop goes on to the next identifier,
\* so the run ends as the run without that identifier does; and a run that
\* returns has gone through every identifier.
C9_FailedFetchSkipped ==
  /\ [][(pc = "loop" /\ i' = i + 1 /\ lastExport' # "json")
          => (results' = results /\ pc' = "loop" /\ lastExit' = "noRaw")]_vars
  /\ [](pc = "done" => i = Len(sessionIDs))

C9_Witness ==
  /\ pc = "loop"
  /\ lastExport \in {"throws", "unparseable"}
  /\ Len(results) >= 1
  /\ i < Len(sessionIDs)


\* C6: with an empty or absent query scoreRelevance returns 1, no session that
\* passed the filters is dropped for its score, every retained and every
\* returned session has relevance 1, the returned list is ordered by endedAt
\* descending alone, and it holds every retained session unless the limit cut
\* it (then it is full).
C6_EmptyQueryScoresOne ==
  ~queryGiven(options) =>
    /\ lastExit # "zeroRelevance"
    /\ \A k \in 1..Len(results) :
         /\ results[k].relevance = 1
         /\ scoreRelevance(results[k], options.query) = Returned(1)
    /\ pc = "done" =>
         /\ \A k \in 1..Len(returned) : returned[k].relevance = 1
         /\ \A a, b \in 1..Len(returned) :
              a < b => returned[a].endedAt >= returned[b].endedAt
         /\ Range(returned) \subseteq Range(results)
         /\ Len(results) <= effectiveLimit(options) => Range(returned) = Range(results)
         /\ Len(results) > effectiveLimit(options) =>
              Len(returned) = effectiveLimit(options)

C6_Witness ==
  /\ pc = "done"
  /\ options.query = Some(<<>>)
  /\ Len(returned) >= 2
  /\ returned[1].endedAt > returned[2].endedAt
  /\ results[1].endedAt < results[2].endedAt
  \* a session in which the letter x occurs nowhere is returned too
  /\ \E k \in 1..Len(returned) : ~TermAppears(returned[k], <<"x">>)

-----------------------------------------------------------------------------
(* scoreRelevance as a function: the call scoreRelevance(session, query) *)

Texts == {<<"a", "a">>, <<"A", "b">>, <<"x">>}

ScoreSessions ==
  {[title |-> t, userMessages |-> um, cwd |-> Some(d), toolsUsed |-> tu,
    filesFromToolCalls |-> f, endedAt |-> 1]
     : t \in {None, Some(<<"A", "b">>), Some(<<"b">>)},
       um \in SeqsUpTo(Texts, MaxMessages),
       d \in {<<>>, <<"a", "/", "B">>},
       tu \in {<<>>, <<<<"A", "b">>>>, <<<<"A", "b">>, <<"b">>>>},
       f \in {<<>>, <<<<"a", "/", "B">>>>, <<<<"b", "/", "a">>, <<"x", "/">>>>}}

InitScore ==
  /\ pc = "call"
  /\ input \in [session : ScoreSessions, query : Queries]
  /\ output = <<>>
  /\ options = <<>> /\ sessionIDs = <<>> /\ i = 0 /\ results = <<>>
  /\ lastExport = "none" /\ lastExit = "none" /\ returned = <<>>
  /\ NoSync

Score ==
  /\ pc = "call"
  /\ output' = scoreRelevance(input.session, input.query)
  /\ pc' = "returned"
  /\ UNCHANGED <<options, sessionIDs, i, results, lastExport, lastExit, returned, input>>
  /\ UNCHANGED syncVars

SpecScore == InitScore /\ [][Score]_vars

\* the points one term earns in one session
Points(session, term) ==
  (IF session.title.def /\ Contains(session.title.val, term) THEN 15 ELSE 0)
  + 10 * Cardinality({k \in 1..Len(session.userMessages) :
                        Contains(session.userMessages[k], term)})
  + (IF Contains(session.cwd.val, term) THEN 5 ELSE 0)
  + 3 * Cardinality({k \in 1..Len(session.toolsUsed) :
                       Contains(session.toolsUsed[k], term)})
  + 3 * Cardinality({k \in 1..Len(session.filesFromToolCalls) :
                       Contains(session.filesFromToolCalls[k], term)})

RECURSIVE SumPoints(_, _, _)
SumPoints(session, q, spans) ==
  IF spans = {} THEN 0
  ELSE LET sp == CHOOSE x \in spans : TRUE IN
       Points(session, TermAt(q, sp)) + SumPoints(session, q, spans \ {sp})

\* C5: for a non-empty query scoreRelevance returns the sum, over every term
\* of the query, of 15 if the title contains the term, 10 per user message
\* containing it, 5 if the working directory contains it, 3 per tool name and
\* 3 per file path containing it (case-insensitively); the sum is an integer
\* that is not negative.
C5_ScoreIsWeightedSum ==
  (pc = "returned" /\ input.query.def /\ input.query.val # <<>>) =>
    /\ output = Returned(SumPoints(input.session, input.query.val,
                                   TermSpans(input.query.val)))
    /\ output.value \in Nat

C5_Witness ==
  /\ pc = "returned"
  /\ input.query = Some(<<"A", " ", " ", "b">>)
  /\ input.session.title = Some(<<"A", "b">>)
  /\ input.session.userMessages = <<<<"a", "a">>, <<"A", "b">>>>
  /\ input.session.cwd = Some(<<"a", "/", "B">>)
  /\ Len(input.session.toolsUsed) = 2
  /\ Len(input.session.filesFromToolCalls) = 2
  /\ output = Returned(30 + 30 + 10 + 9 + 6)

-----------------------------------------------------------------------------
(* The two extractors as functions: one call of parseSessionContent or of  *)
(* parseOpenCodeSession                                                    *)

InitParse ==
  /\ pc = "call"
  /\ input \in JsonlInputs \cup OpenCodeInputs
  /\ output = <<>>
  /\ options = <<>> /\ sessionIDs = <<>> /\ i = 0 /\ results = <<>>
  /\ lastExport = "none" /\ lastExit = "none" /\ returned = <<>>
  /\ NoSync

ParseContent ==
  /\ pc = "call"
  /\ input.format = "jsonl"
  /\ output' = parseSessionContent(input.content, input.pathId)
  /\ pc' = "returned"
  /\ UNCHANGED <<options, sessionIDs, i, results, lastExport, lastExit, returned, input>>
  /\ UNCHANGED syncVars

ParseOpenCode ==
  /\ pc = "call"
  /\ input.format = "opencode"
  /\ output' = parseOpenCodeSession(input.session)
  /\ pc' = "returned"
  /\ UNCHANGED <<options, sessionIDs, i, results, lastExport, lastExit, returned, input>>
  /\ UNCHANGED syncVars

NextParse == ParseContent \/ ParseOpenCode

SpecParse == InitParse /\ [][NextParse]_vars


(* Properties of the extractors *)

RECURSIVE SumOf(_, _)
SumOf(entries, counter) ==
  IF entries = <<>> THEN 0 ELSE Head(entries)[counter] + SumOf(Tail(entries), counter)

\* C1: in every session an extractor returns, each of the four token totals
\* equals the sum of that counter over the entries of modelTokens.
C1_TotalsEqualModelSum ==
  (pc = "returned" /\ output.tag = "session") =>
    LET s == output.val IN
    /\ s.inputTokens = SumOf(s.modelTokens, "input")
    /\ s.outputTokens = SumOf(s.modelTokens, "output")
    /\ s.cacheCreationTokens = SumOf(s.modelTokens, "cacheCreation")
    /\ s.cacheReadTokens = SumOf(s.modelTokens, "cacheRead")

\* C2: in every session an extractor returns, every entry of
\* filesFromToolCalls contains a path separator, / or \.
C2_FilesHaveSeparator ==
  (pc = "returned" /\ output.tag = "session") =>
    \A k \in 1..Len(output.val.filesFromToolCalls) :
      \E j \in 1..Len(output.val.filesFromToolCalls[k]) :
        output.val.filesFromToolCalls[k][j] \in {"/", "\\"}

\* the lines of a transcript that are JSON objects of type user or assistant
Recognized(line) ==
  /\ line.kind = "json"
  /\ line.value.jkind = "object"
  /\ line.value.type \in {Some("user"), Some("assistant")}

\* C7 as claimed: an extractor never returns a session whose userMessages is
\* empty (it returns null instead).
C7_NeverEmptySession ==
  (pc = "returned" /\ output.tag = "session") => Len(output.val.userMessages) > 0

\* C7 as amended: parseSessionContent returns null exactly when it retains no
\* user or assistant event, parseOpenCodeSession never returns null, and a
\* session that has events but no user text is returned with an empty
\* userMessages, its messageCount counting the events.
C7_NullOnlyWithoutEvents ==
  pc = "returned" =>
    /\ input.format = "jsonl" =>
         /\ output = Null <=> Len(SelectSeq(input.content, Recognized)) = 0
         /\ output.tag = "session" =>
              output.val.messageCount = Len(SelectSeq(input.content, Recognized))
    /\ input.format = "opencode" =>
         /\ output # Null
         /\ output.tag = "session" =>
              output.val.messageCount = Len(input.session.messages.val)

C7_Witness ==
  /\ pc = "returned"
  /\ input.format = "jsonl"
  /\ Len(input.content) >= 2
  /\ output.tag = "session"
  /\ output.val.userMessages = <<>>
  /\ output.val.toolsUsed # <<>>

\* C10: a line that is not JSON, or whose type is neither user nor assistant,
\* is skipped and changes nothing else: parseSessionContent returns what it
\* returns for the transcript without those lines, the retained events are
\* the recognized lines in their order (their number, the first's and the
\* last's timestamps), and an error is raised only for a recognized line.
C10_SkippedLinesChangeNothing ==
  (pc = "returned" /\ input.format = "jsonl") =>
    LET rec == SelectSeq(input.content, Recognized) IN
    /\ output = parseSessionContent(rec, input.pathId)
    /\ output.tag = "session" =>
         /\ output.val.messageCount = Len(rec)
         /\ output.val.startedAt = rec[1].value.timestamp
         /\ output.val.endedAt = rec[Len(rec)].value.timestamp
    /\ output.tag = "threw" => \E k \in 1..Len(rec) : ~rec[k].value.message.def

C10_Witness ==
  /\ pc = "returned"
  /\ input.format = "jsonl"
  /\ Len(input.content) = 3
  /\ Recognized(input.content[1])
  /\ input.content[2].kind = "malformed"
  /\ Recognized(input.content[3])
  /\ output.tag = "session"
  /\ output.val.messageCount = 2
  /\ Len(output.val.userMessages) = 1
  /\ Len(output.val.toolsUsed) = 1

-----------------------------------------------------------------------------
(* matchesFilters as a function: the call matchesFilters(session, options) *)

\* what matchesFilters reads of a session
FilterSessions ==
  {[endedAt |-> e, toolsUsed |-> tu, filesFromToolCalls |-> f]
     : e \in 0..MaxTime,
       tu \in {<<>>, <<<<"A", "b">>>>, <<<<"x">>, <<"a", "B">>>>},
       f \in {<<>>, <<<<"a", "/", "B">>>>, <<<<"x", "/">>, <<"b", "/", "a">>>>}}

\* The options main builds: --days 0 gives days 0, --file-pattern "" gives an
\* empty pattern, --tools gives the pieces between commas, at least one piece
\* and a piece possibly empty.
FilterOptions ==
  {[NoFilters(None, None) EXCEPT !.since = si, !.until = un, !.days = d,
                                 !.tools = t, !.filePattern = fp]
     : si \in {None} \cup {Some(x) : x \in 1..MaxTime},
       un \in {None} \cup {Some(x) : x \in 0..(MaxTime - 1)},
       d \in {None, Some(0), Some(1), Some(2)},
       t \in {None, Some(<<<<"b">>>>), Some(<<<<"x", "x">>, <<"A", "B">>>>),
              Some(<<<<>>>>), Some(<<<<"b", "a">>>>)},
       fp \in {None, Some(<<>>), Some(<<"A", "/">>), Some(<<"/", "b">>),
               Some(<<"a", "b">>)}}

InitFilter ==
  /\ pc = "call"
  /\ input \in [session : FilterSessions, options : FilterOptions]
  /\ output = <<>>
  /\ options = <<>> /\ sessionIDs = <<>> /\ i = 0 /\ results = <<>>
  /\ lastExport = "none" /\ lastExit = "none" /\ returned = <<>>
  /\ NoSync

Filter ==
  /\ pc = "call"
  /\ output' = matchesFilters(input.session, input.options)
  /\ pc' = "returned"
  /\ UNCHANGED <<options, sessionIDs, i, results, lastExport, lastExit, returned, input>>
  /\ UNCHANGED syncVars

SpecFilter == InitFilter /\ [][Filter]_vars

\* endedAt lies in the window the since and until of o span, ends included
InWindow(s, o) ==
  /\ o.since.def => s.endedAt >= o.since.val
  /\ o.until.def => s.endedAt <= o.until.val

\* text occurs in entry at some position, letter case ignored
OccursIn(text, entry) ==
  \E k \in 0..(Len(entry) - Len(text)) :
    \A j \in 1..Len(text) : Lower(entry[k + j]) = Lower(text[j])

\* C11: matchesFilters never accepts a session whose endedAt is outside the
\* window [since, until], both ends included, and when no other filter is
\* given it accepts exactly the sessions whose endedAt is inside it.
C11_InclusiveWindow ==
  pc = "returned" =>
    LET s == input.session
        o == input.options
    IN /\ output => InWindow(s, o)
       /\ (~o.days.def /\ ~o.tools.def /\ ~o.filePattern.def) =>
            (output = InWindow(s, o))

C11_Witness ==
  /\ pc = "returned"
  /\ input.options.since.def /\ input.options.until.def
  /\ input.options.since.val < input.options.until.val
  /\ input.session.endedAt = input.options.until.val
  /\ ~input.options.days.def /\ ~input.options.tools.def
  /\ ~input.options.filePattern.def
  /\ output = TRUE

\* C12: for every supplied days N, matchesFilters gives the verdict it gives
\* when since = now - N days is supplied in the place of days; a session that
\* ended before now - N days is rejected; and a session accepted with days and
\* since / until together is inside the window too.
C12_DaysEqualsSince ==
  (pc = "returned" /\ input.options.days.def) =>
    LET s == input.session
        o == input.options
        N == o.days.val
    IN /\ ~o.since.def =>
            output = matchesFilters(s, [o EXCEPT !.days = None, !.since = Some(Now - N)])
       /\ s.endedAt < Now - N => output = FALSE
       /\ output => InWindow(s, o)

\* some requested tool name occurs in some tool name of the session
ToolRequested(s, tools) ==
  \E a \in 1..Len(tools) : \E b \in 1..Len(s.toolsUsed) :
    OccursIn(tools[a], s.toolsUsed[b])

\* C13: with a tools filter, matchesFilters accepts a session only if one of
\* the requested names occurs, letter case ignored, inside one of the names in
\* toolsUsed, and when no other filter is given it accepts exactly those
\* sessions.
C13_ToolSubstring ==
  (pc = "returned" /\ input.options.tools.def) =>
    LET s == input.session
        o == input.options
    IN /\ output => ToolRequested(s, o.tools.val)
       /\ (~o.since.def /\ ~o.until.def /\ ~o.days.def /\ ~o.filePattern.def) =>
            (output = ToolRequested(s, o.tools.val))

\* "b" is accepted for the tool "Ab": inside the name, in another letter case
C13_Witness ==
  /\ pc = "returned"
  /\ input.options.tools = Some(<<<<"b">>>>)
  /\ input.session.toolsUsed = <<<<"A", "b">>>>
  /\ ~input.options.since.def /\ ~input.options.until.def
  /\ ~input.options.days.def /\ ~input.options.filePattern.def
  /\ output = TRUE

\* the pattern occurs in some file path of the session
FileMatches(s, pattern) ==
  \E b \in 1..Len(s.filesFromToolCalls) : OccursIn(pattern, s.filesFromToolCalls[b])

NoOptions(o) ==
  ~o.since.def /\ ~o.until.def /\ ~o.days.def /\ ~o.tools.def /\ ~o.filePattern.def

\* C14 as claimed: with a file pattern, matchesFilters accepts a session only
\* if the pattern occurs, letter case ignored, inside one of the paths in
\* filesFromToolCalls, and when no other filter is given it accepts exactly
\* those sessions; without a file pattern the paths of the session do not
\* change the verdict, and without any option every session is accepted.
C14_FilePatternSubstring ==
  pc = "returned" =>
    LET s == input.session
        o == input.options
    IN /\ o.filePattern.def =>
            /\ output => FileMatches(s, o.filePattern.val)
            /\ NoOptions([o EXCEPT !.filePattern = None]) =>
                 (output = FileMatches(s, o.filePattern.val))
       /\ ~o.filePattern.def =>
            output = matchesFilters([s EXCEPT !.filesFromToolCalls = <<>>], o)
       /\ NoOptions(o) => output = TRUE

\* a pattern that is given and not the empty string
PatternGiven(o) == o.filePattern.def /\ o.filePattern.val # <<>>

\* C14 as amended: the same with a file pattern that is not the empty string;
\* an empty pattern is treated as no pattern.
C14_NonEmptyPatternSubstring ==
  pc = "returned" =>
    LET s == input.session
        o == input.options
    IN /\ PatternGiven(o) =>
            /\ output => FileMatches(s, o.filePattern.val)
            /\ NoOptions([o EXCEPT !.filePattern = None]) =>
                 (output = FileMatches(s, o.filePattern.val))
       /\ ~PatternGiven(o) =>
            /\ output = matchesFilters([s EXCEPT !.filesFromToolCalls = <<>>], o)
            /\ output = matchesFilters(s, [o EXCEPT !.filePattern = None])
       /\ NoOptions(o) => output = TRUE

\* "A/" is accepted for the path "a/B", and "ab" is rejected for it
C14_Witness ==
  /\ pc = "returned"
  /\ input.options.filePattern = Some(<<"A", "/">>)
  /\ input.session.filesFromToolCalls = <<<<"a", "/", "B">>>>
  /\ NoOptions([input.options EXCEPT !.filePattern = None])
  /\ output = TRUE

-----------------------------------------------------------------------------
(* Truncation and order of processing in searchSessions *)

\* how many times x occurs in seq
Count(seq, x) == Cardinality({k \in 1..Len(seq) : seq[k] = x})

\* the limit of the options, 20 when none is supplied
SuppliedLimit(o) == IF o.limit.def THEN o.limit.val ELSE DefaultLimit

\* C15: searchSessions returns the first limit sessions of the sorted retained
\* set, limit being 20 when none is supplied: at most limit sessions, all of
\* them retained ones, as many as the limit allows, and no retained session
\* that is left out sorts strictly before a returned one.
C15_FirstLimitEntries ==
  pc = "done" =>
    /\ Len(returned) <= SuppliedLimit(options)
    /\ Len(returned) = Min(SuppliedLimit(options), Len(results))
    /\ \A x \in Range(returned) : Count(returned, x) <= Count(results, x)
    /\ \A x \in Range(results) : \A y \in Range(returned) :
         Count(results, x) > Count(returned, x) => ~(compareResults(x, y) < 0)

\* the orders in which n sessions can be gathered
Orders(n) == {p \in [1..n -> 1..n] : \A a, b \in 1..n : a # b => p[a] # p[b]}

\* the retained sessions gathered in the order p
Gathered(p) == [k \in 1..Len(results) |-> results[p[k]]]

\* C16: the list searchSessions returns is the list it would return had the
\* sessions been processed, each on its own, in any other order and gathered
\* into one collection before the sort and the truncation.
C16_OrderIndependent ==
  pc = "done" =>
    \A p \in Orders(Len(results)) :
      slice(sortResults(Gathered(p)), effectiveLimit(options)) = returned

-----------------------------------------------------------------------------
(* postgres/sync.ts and postgres/sync-opencode.ts: syncSession and sync *)

\* createHash('md5').update(content).digest('hex'): equal for equal content,
\* and no two contents of the model collide
md5(content) == <<"md5", content>>

\* A transcript file: whether it can be read, the UUID its name carries, and
\* its text. Of the text the model keeps what parseSessionFile asks of it:
\* looksLikeExport, the trimmed text starts with { and includes "info" and
\* "messages"; whole, the value JSON.parse(trimmed) returns, if it returns;
\* lines, the text split into lines.
Text(looksLikeExport, whole, lines) ==
  [looksLikeExport |-> looksLikeExport, whole |-> whole, lines |-> lines]

\* an event log in which the two words do not occur
File(lines, pathId) ==
  [readable |-> TRUE, pathId |-> pathId, content |-> Text(FALSE, None, lines)]

\* the text of an export read as an event log: one line, an object that has
\* no type
exportAsLines(value) ==
  <<[kind |-> "json", value |-> [jkind |-> "object", type |-> None]]>>

\* one JSON object, with whatever info and messages keys value has
ExportFile(value, pathId) ==
  [readable |-> TRUE, pathId |-> pathId,
   content |-> Text(TRUE, Some(value), exportAsLines(value))]

\* an event log that starts with { and has the two words in it somewhere, and
\* is not one JSON value as a whole
LookalikeFile(lines, pathId) ==
  [readable |-> TRUE, pathId |-> pathId, content |-> Text(TRUE, None, lines)]

\* an event log of one line with the two words in it: as a whole it is a JSON
\* object without an info and a messages key
SingleEventFile(line, pathId) ==
  [readable |-> TRUE, pathId |-> pathId,
   content |-> Text(TRUE, Some([kind |-> "object", info |-> None, messages |-> None]),
                    <<line>>)]

Unreadable == [readable |-> FALSE, pathId |-> None, content |-> <<>>]

\* readFileSync raises for a file that cannot be read; inside the try,
\* JSON.parse raises for a text that is not one JSON value and
\* parseOpenCodeSession for a value it cannot take, and the catch goes on to
\* parseSessionContent
parseSessionFile(file) ==
  IF ~file.readable THEN Threw
  ELSE IF file.content.looksLikeExport
  THEN LET p == IF file.content.whole.def
                THEN parseOpenCodeSession(file.content.whole.val)
                ELSE Threw
       IN IF p.tag # "threw" THEN p
          ELSE parseSessionContent(file.content.lines, file.pathId)
  ELSE parseSessionContent(file.content.lines, file.pathId)

fileHash(file) == md5(file.content)

\* md5 of JSON.stringify(session)
sessionHash(rawSession) == md5(rawSession)

\* what the INSERT ... ON CONFLICT (id) DO UPDATE leaves in the row
Row(session, hash) ==
  [transcript_hash |-> hash, message_count |-> session.messageCount,
   user_messages |-> session.userMessages]

upsert(rows, id, row) ==
  [x \in DOMAIN rows \cup {id} |-> IF x = id THEN row ELSE rows[x]]

\* SELECT id, transcript_hash FROM sessions, as a Map
getExistingHashes(rows) == [x \in DOMAIN rows |-> rows[x].transcript_hash]

\* what one call of syncSession did: its return value, the session id and the
\* hash it computed (if it came that far), and the table after the call
SyncOutcome(result, id, hash, rows) ==
  [result |-> result, id |-> id, hash |-> hash, db |-> rows]

\* the comparison without `&& !options.force`
checkAndUpsert_forceIgnored(session, hash, hashes, opts, rows, dbOk) ==
  LET id == session.id
      existingHash == IF id.def /\ id.val \in DOMAIN hashes
                      THEN Some(hashes[id.val]) ELSE None
  IN IF existingHash = Some(hash)
     THEN SyncOutcome("skipped", id, Some(hash), rows)
     ELSE IF ~id.def \/ ~dbOk
     THEN SyncOutcome("error", id, Some(hash), rows)
     ELSE SyncOutcome(IF existingHash.def THEN "updated" ELSE "created",
                      id, Some(hash), upsert(rows, id.val, Row(session, hash)))

\* "Check if already synced with same hash" and what follows it, the same in
\* both programs. The statement raises when the database fails (dbOk false)
\* and when the id is undefined; the catch turns that into 'error'.
checkAndUpsert(session, hash, hashes, opts, rows, dbOk) ==
  LET id == session.id
      existingHash == IF id.def /\ id.val \in DOMAIN hashes
                      THEN Some(hashes[id.val]) ELSE None
  IN IF existingHash = Some(hash) /\ ~opts.force
     THEN SyncOutcome("skipped", id, Some(hash), rows)
     ELSE IF ~id.def \/ ~dbOk
     THEN SyncOutcome("error", id, Some(hash), rows)
     ELSE SyncOutcome(IF existingHash.def THEN "updated" ELSE "created",
                      id, Some(hash), upsert(rows, id.val, Row(session, hash)))

\* syncSession of postgres/sync.ts
syncSession(file, hashes, opts, rows, dbOk) ==
  LET p == parseSessionFile(file) IN
  IF p.tag = "threw" THEN SyncOutcome("error", None, None, rows)
  ELSE IF p.tag = "null" THEN SyncOutcome("skipped", None, None, rows)
  ELSE IF Len(p.val.userMessages) = 0
  THEN SyncOutcome("skipped", p.val.id, None, rows)
  ELSE checkAndUpsert(p.val, fileHash(file), hashes, opts, rows, dbOk)

\* if (!options.days) return true; return session.endedAt >= cutoffDate
matchesDateFilter(session, opts) ==
  ~(opts.days.def /\ opts.days.val # 0) \/ session.endedAt >= cutoff(opts.days.val)

\* syncSession of postgres/sync-opencode.ts
syncSessionOpenCode(outcome, hashes, opts, rows, dbOk) ==
  LET rawSession == exportSession(outcome) IN
  IF falsy(rawSession) THEN SyncOutcome("error", None, None, rows)
  ELSE LET p == parseOpenCodeSession(rawSession) IN
       IF p.tag = "threw" THEN SyncOutcome("error", None, None, rows)
       ELSE IF Len(p.val.userMessages) = 0
       THEN SyncOutcome("skipped", p.val.id, None, rows)
       ELSE IF ~matchesDateFilter(p.val, opts)
       THEN SyncOutcome("skipped", p.val.id, None, rows)
       ELSE checkAndUpsert(p.val, sessionHash(rawSession), hashes, opts, rows, dbOk)

\* const stats = { created: 0, updated: 0, skipped: 0, errors: 0 }; the
\* property named error does not exist yet
NewStats ==
  [created |-> 0, updated |-> 0, skipped |-> 0, errors |-> 0, error |-> "undefined"]

\* stats[result]++; 'error' is not a property of stats: undefined++ is NaN
bump(st, result) ==
  IF result = "error" THEN [st EXCEPT !.error = "NaN"]
  ELSE [st EXCEPT ![result] = @ + 1]

\* the files of the sessions directory a run can come upon
lUserE1 == Event(Some("user"), UserMessage(TextContent(<<"A", "b">>)), Some(<<"e", "1">>), 1)
lUserNoId == Event(Some("user"), UserMessage(TextContent(<<"x">>)), None, 1)
lAssistant ==
  Event(Some("assistant"),
        AssistantMessage(Some(<<"m", "1">>), Usage(Some(1), Some(2), None, None), Blocks(<<>>)),
        None, MaxTime)

SyncFiles ==
  {File(<<lUserE1>>, None),
   \* the same transcript, grown by one event
   File(<<lUserE1, lAssistant>>, None),
   \* the same text under a name that carries a UUID
   File(<<lUserE1>>, Some(<<"f", "1">>)),
   \* no session id anywhere
   File(<<lUserNoId>>, None),
   \* no user text, nothing retained, an event without message, no file
   File(<<lAssistant>>, None),
   File(<<[kind |-> "malformed"]>>, None),
   File(<<Event(Some("user"), None, None, 2)>>, None),
   Unreadable,
   \* an OpenCode export kept as a file
   ExportFile(Export(Some(<<"s", "1">>), None, Some(<<"x">>), Times(1), Some(<<uAA>>)), None)}

\* what `opencode export` can do for an identifier of the list
SyncExports ==
  {ExecThrows,
   Printed(Export(Some(<<"s", "1">>), None, Some(<<"x">>), Times(1), Some(<<uAA>>))),
   \* the same session, updated since
   Printed(Export(Some(<<"s", "1">>), None, Some(<<"x">>), Times(MaxTime), Some(<<uAA, uX>>))),
   Printed(Export(Some(<<"s", "2">>), None, Some(<<"x">>), Times(MaxTime), Some(<<uAb>>))),
   \* no info.id, no user text, no messages
   Printed(Export(None, None, Some(<<"x">>), Times(MaxTime), Some(<<uAb>>))),
   Printed(Export(Some(<<"s", "4">>), None, Some(<<"x">>), Times(2), Some(<<tRead>>))),
   Printed(Export(Some(<<"s", "6">>), None, None, Times(1), None))}

SyncOptions == [force : BOOLEAN, days : {None, Some(1)}]

\* the sessions table as earlier runs of the two programs can have left it
StoredRows ==
  {<<>>}
  \cup {syncSession(f, <<>>, [force |-> FALSE, days |-> None], <<>>, TRUE).db : f \in SyncFiles}
  \cup {syncSessionOpenCode(e, <<>>, [force |-> FALSE, days |-> None], <<>>, TRUE).db
          : e \in SyncExports}

InitSync ==
  /\ pc = "start"
  /\ input \in {[program |-> "sync.ts"], [program |-> "sync-opencode.ts"]}
  /\ options \in SyncOptions
  /\ db \in StoredRows
  /\ existingHashes = <<>> /\ stats = <<>> /\ lastSync = <<>>
  /\ sessionIDs = <<>> /\ i = 0 /\ results = <<>>
  /\ lastExport = "none" /\ lastExit = "none" /\ returned = <<>>
  /\ output = <<>>

\* sync up to its loop: the stats, the hashes read once, the list of files
\* (findFilesToSync) or of identifiers (getAllSessionIDs)
SyncStart ==
  /\ pc = "start"
  /\ stats' = NewStats
  /\ existingHashes' = getExistingHashes(db)
  /\ \E n \in 0..MaxSessions : sessionIDs' = [k \in 1..n |-> k]
  /\ pc' = "loop"
  /\ UNCHANGED <<options, i, results, lastExport, lastExit, returned, input, output,
                 db, lastSync>>

\* what a loop iteration of sync does with the outcome of syncSession
Synced(o) ==
  /\ db' = o.db
  /\ lastSync' = [result |-> o.result, id |-> o.id, hash |-> o.hash]
  /\ stats' = bump(stats, o.result)
  /\ i' = i + 1
  /\ UNCHANGED <<pc, options, sessionIDs, results, lastExport, lastExit, returned,
                 input, output, existingHashes>>

\* one iteration of the loop of sync in postgres/sync.ts
SyncFile ==
  /\ pc = "loop"
  /\ input.program = "sync.ts"
  /\ i < Len(sessionIDs)
  /\ \E file \in SyncFiles, dbOk \in BOOLEAN :
       Synced(syncSession(file, existingHashes, options, db, dbOk))

\* one iteration of the loop of sync in postgres/sync-opencode.ts
SyncExport ==
  /\ pc = "loop"
  /\ input.program = "sync-opencode.ts"
  /\ i < Len(sessionIDs)
  /\ \E outcome \in SyncExports, dbOk \in BOOLEAN :
       Synced(syncSessionOpenCode(outcome, existingHashes, options, db, dbOk))

\* return stats
SyncReturn ==
  /\ pc = "loop"
  /\ i = Len(sessionIDs)
  /\ returned' = stats
  /\ pc' = "done"
  /\ UNCHANGED <<options, sessionIDs, i, results, lastExport, lastExit, input, output>>
  /\ UNCHANGED syncVars

NextSync == SyncStart \/ SyncFile \/ SyncExport \/ SyncReturn

SpecSync == InitSync /\ [][NextSync]_vars

\* C17: in both sync programs, a syncSession call that comes to compare
\* hashes returns 'skipped' and leaves the table as it is when the hash of the
\* blob equals the hash that the run read from the table for the session id
\* and force is not set; otherwise it upserts: the row of that id then holds
\* the new hash and every other row is as before, unless the statement fails,
\* which gives 'error' and an unchanged table.
C17_SkipOnSameHash ==
  [][(pc = "loop" /\ i' = i + 1 /\ lastSync'.hash.def) =>
       LET id == lastSync'.id
           h == lastSync'.hash.val
           same == /\ id.def
                   /\ id.val \in DOMAIN existingHashes
                   /\ existingHashes[id.val] = h
       IN IF same /\ ~options.force
          THEN lastSync'.result = "skipped" /\ db' = db
          ELSE \/ /\ lastSync'.result \in {"created", "updated"}
                  /\ id.def
                  /\ DOMAIN db' = DOMAIN db \cup {id.val}
                  /\ db'[id.val].transcript_hash = h
                  /\ \A x \in DOMAIN db : x # id.val => db'[x] = db[x]
               \/ lastSync'.result = "error" /\ db' = db]_vars

\* an unchanged transcript is skipped, after a changed one was updated
C17_Witness ==
  /\ pc = "loop"
  /\ ~options.force
  /\ stats.updated = 1
  /\ lastSync.result = "skipped"
  /\ lastSync.id.def /\ lastSync.hash.def
  /\ lastSync.id.val \in DOMAIN existingHashes
  /\ existingHashes[lastSync.id.val] = lastSync.hash.val

-----------------------------------------------------------------------------
(* Further properties of scoreRelevance *)

\* session with one more occurrence of text in its user message k, put after
\* the message or before it
WithOccurrence(session, k, text, after) ==
  [session EXCEPT !.userMessages[k] = IF after THEN @ \o text ELSE text \o @]

\* C18: the score of a session for a query is not greater than the score, for
\* the same query, of the session that differs from it only in one user
\* message having one more occurrence of a term of the query, added after or
\* before the text of the message.
C18_MoreOccurrencesNeverLess ==
  (pc = "returned" /\ input.query.def /\ input.query.val # <<>>) =>
    \A sp \in TermSpans(input.query.val) :
      \A k \in 1..Len(input.session.userMessages) : \A after \in BOOLEAN :
        LET more == WithOccurrence(input.session, k,
                                   SubSeq(input.query.val, sp[1], sp[2]), after)
        IN scoreRelevance(more, input.query).value >= output.value

\* the term x is added to a message that is x, and to one that has no x
C18_Witness ==
  /\ pc = "returned"
  /\ input.query = Some(<<"x">>)
  /\ input.session.userMessages = <<<<"x">>, <<"a", "a">>>>
  /\ output = Returned(10)
  /\ scoreRelevance(WithOccurrence(input.session, 1, <<"x">>, TRUE), input.query)
       = Returned(10)
  /\ scoreRelevance(WithOccurrence(input.session, 2, <<"x">>, TRUE), input.query)
       = Returned(20)

-----------------------------------------------------------------------------
(* Session identity *)

\* C19: every session an extractor returns, from a transcript or from an
\* export, has an id that is a string and is not empty.
C19_IdNonEmpty ==
  (pc = "returned" /\ output.tag = "session") =>
    output.val.id.def /\ output.val.id.val # <<>>

\* C20: the id of a session read from a transcript is the UUID in the name of
\* the file when the name has one, whatever sessionId the first retained event
\* carries; without one it is the sessionId of the first retained event; and
\* without that either it is the literal 'unknown'.
C20_IdFallbackOrder ==
  (pc = "returned" /\ input.format = "jsonl" /\ output.tag = "session") =>
    LET first == SelectSeq(input.content, Recognized)[1].value IN
    output.val.id =
      Some(IF input.pathId.def THEN input.pathId.val
           ELSE IF first.sessionId.def THEN first.sessionId.val
           ELSE Unknown)

\* the name of the file wins over the sessionId e1 of the first event
C20_Witness ==
  /\ pc = "returned"
  /\ input.format = "jsonl"
  /\ input.pathId = Some(<<"f", "1">>)
  /\ Len(input.content) >= 2
  /\ ~Recognized(input.content[1])
  /\ Recognized(input.content[2])
  /\ input.content[2].value.sessionId = Some(<<"e", "1">>)
  /\ output.tag = "session"
  /\ output.val.id = Some(<<"f", "1">>)

-----------------------------------------------------------------------------
(* The terms of a query *)

\* the terms of the query q as a set: lowercased, no term twice
TermSet(q) == {TermAt(q, sp) : sp \in TermSpans(q)}

RECURSIVE SumPointsOver(_, _)
SumPointsOver(session, terms) ==
  IF terms = {} THEN 0
  ELSE LET t == CHOOSE x \in terms : TRUE IN
       Points(session, t) + SumPointsOver(session, terms \ {t})

\* C21: for a non-empty query scoreRelevance returns the points of the set of
\* the query's terms (the query lowercased, split on runs of whitespace, empty
\* terms dropped), each term counted once however often the query repeats it:
\* the score of the query with the term given once.
C21_TermsFormASet ==
  (pc = "returned" /\ input.query.def /\ input.query.val # <<>>) =>
    output = Returned(SumPointsOver(input.session, TermSet(input.query.val)))

-----------------------------------------------------------------------------
(* parseSessionFile as a function: the call parseSessionFile(filePath) on a *)
(* file that can be read                                                    *)

\* the lines of the files: lines that are not JSON or not events, user and
\* assistant events, a user event without message
FileLines ==
  {l \in TranscriptLines :
     \/ l.kind = "malformed"
     \/ l.kind = "json" /\ l.value.jkind = "null"
     \/ l.kind = "json" /\ l.value.jkind = "object"
        /\ l.value.type = Some("user") /\ l.value.timestamp = 2
     \/ l.kind = "json" /\ l.value.jkind = "object" /\ l.value.sessionId = Some(<<"e", "1">>)}

ParseFiles ==
  {File(c, pid) : c \in SeqsUpTo(FileLines, MaxLines), pid \in PathIds}
  \cup {LookalikeFile(c, pid) : c \in SeqsUpTo(FileLines, MaxLines), pid \in PathIds}
  \cup {SingleEventFile(l, pid)
          : l \in {x \in TranscriptLines : x.kind = "json" /\ x.value.jkind = "object"},
            pid \in PathIds}
  \cup {ExportFile(v, None) : v \in (GoodExports \cup BadExports) \ {x \in GoodExports : x.kind = "falsy"}}

InitFile ==
  /\ pc = "call"
  /\ input \in [file : ParseFiles]
  /\ output = <<>>
  /\ options = <<>> /\ sessionIDs = <<>> /\ i = 0 /\ results = <<>>
  /\ lastExport = "none" /\ lastExit = "none" /\ returned = <<>>
  /\ NoSync

ParseFile ==
  /\ pc = "call"
  /\ output' = parseSessionFile(input.file)
  /\ pc' = "returned"
  /\ UNCHANGED <<options, sessionIDs, i, results, lastExport, lastExit, returned, input>>
  /\ UNCHANGED syncVars

SpecFile == InitFile /\ [][ParseFile]_vars

\* the text was taken for an export and reading it as one raised
ExportParseRaised(text) ==
  /\ text.looksLikeExport
  /\ ~text.whole.def \/ parseOpenCodeSession(text.whole.val).tag = "threw"

\* C22: parseSessionFile raises for no text; for a text taken for an export
\* whose parsing raises it returns what line-delimited parsing returns, null
\* when that finds nothing; and it returns a session read as an export only
\* for a text that is, as a whole, one JSON object with an info and a messages
\* key.
C22_ParseFileNeverRaises ==
  pc = "returned" =>
    LET text == input.file.content IN
    /\ output.tag # "threw"
    /\ ExportParseRaised(text) =>
         output = parseSessionContent(text.lines, input.file.pathId)
    /\ (output.tag = "session" /\ output.val.sessionType = "opencode") =>
         /\ text.whole.def
         /\ text.whole.val.kind = "object"
         /\ text.whole.val.info.def /\ text.whole.val.messages.def

-----------------------------------------------------------------------------
(* Order of userMessages *)

\* the lines of a transcript that carry a user text: user events whose content
\* is a string with a character that is not whitespace
UserTextLines(content) ==
  {k \in 1..Len(content) :
     /\ Recognized(content[k])
     /\ content[k].value.type = Some("user")
     /\ content[k].value.message.def
     /\ content[k].value.message.val.content.ctype = "string"
     /\ \E j \in 1..Len(content[k].value.message.val.content.text) :
          ~IsSpace(content[k].value.message.val.content.text[j])}

\* the <<message, part>> places of an export that carry a user text: text
\* parts, not empty, of messages of role user
UserTextParts(messages) ==
  UNION {{<<m, k>> : k \in {j \in 1..Len(messages[m].parts.val) :
                              /\ messages[m].parts.val[j].type = "text"
                              /\ messages[m].parts.val[j].text.def
                              /\ messages[m].parts.val[j].text.val # <<>>}}
           : m \in {x \in 1..Len(messages) :
                      /\ messages[x].info.def
                      /\ messages[x].info.val.role = "user"
                      /\ messages[x].parts.def}}

\* place p comes before place q in the export
PartBefore(p, q) == p[1] < q[1] \/ (p[1] = q[1] /\ p[2] < q[2])

-----------------------------------------------------------------------------
(* extractFilePaths as a function: the call extractFilePaths(input, files) *)
(* on an empty set of files                                                 *)

MaxDepth == 2

\* the values of a parameter object, nested up to d deep
RECURSIVE ParamValues(_)
ParamValues(d) ==
  IF d = 0 THEN {Str(<<"a", "/", "b">>), Str(<<"x", "\\">>), Str(<<"a", "b">>)}
  ELSE LET inner == ParamValues(d - 1) IN
       inner
       \cup {Obj(<<[key |-> k, value |-> v]>>) : k \in {"file_path", "content"}, v \in inner}
       \cup {Arr(<<v>>) : v \in inner}

ParamObjects ==
  {<<[key |-> k, value |-> v]>>
     : k \in FilePathKeys \cup {"content"}, v \in ParamValues(MaxDepth)}
  \cup {<<[key |-> "edits", value |-> v], [key |-> "path", value |-> w]>>
          : v \in ParamValues(MaxDepth), w \in ParamValues(1)}

InitPaths ==
  /\ pc = "call"
  /\ input \in [input : ParamObjects]
  /\ output = <<>>
  /\ options = <<>> /\ sessionIDs = <<>> /\ i = 0 /\ results = <<>>
  /\ lastExport = "none" /\ lastExit = "none" /\ returned = <<>>
  /\ NoSync

ExtractPaths ==
  /\ pc = "call"
  /\ output' = extractFilePaths(input.input, <<>>)
  /\ pc' = "returned"
  /\ UNCHANGED <<options, sessionIDs, i, results, lastExport, lastExit, returned, input>>
  /\ UNCHANGED syncVars

SpecPaths == InitPaths /\ [][ExtractPaths]_vars

\* the strings with a / or a \ in them
PathLike == {s \in {<<"a", "/", "b">>, <<"x", "\\">>, <<"a", "b">>} :
               \E k \in 1..Len(s) : s[k] \in {"/", "\\"}}

\* s is the value of a whitelisted key of the object obj, or of an object
\* that is the value of a key of obj, and so on down: never of an object that
\* is an element of an array
RECURSIVE UnderPathKey(_, _)
UnderPathKey(s, obj) ==
  \E k \in 1..Len(obj) :
    \/ obj[k].key \in {"file_path", "path", "file", "filename", "filePath"}
         /\ obj[k].value = Str(s)
    \/ obj[k].value.t = "object" /\ UnderPathKey(s, obj[k].value.o)

\* C24: extractFilePaths collects exactly the path-like strings that are the
\* value of a whitelisted key of the parameter object or of an object nested
\* in it through objects at any depth; a string inside an array element or
\* under another key is not collected for that.
C24_ObjectsNotArrays ==
  pc = "returned" =>
    /\ \A k \in 1..Len(output) : output[k] \in PathLike /\ UnderPathKey(output[k], input.input)
    /\ \A s \in PathLike : UnderPathKey(s, input.input) => \E k \in 1..Len(output) : output[k] = s

\* x\ is collected two objects down, under the key content and then the key
\* file_path; a/b, an element of the array under the key path, is not
C24_Witness ==
  /\ pc = "returned"
  /\ input.input =
       <<[key |-> "edits",
          value |-> Obj(<<[key |-> "content",
                           value |-> Obj(<<[key |-> "file_path",
                                            value |-> Str(<<"x", "\\">>)]>>)]>>)],
         [key |-> "path", value |-> Arr(<<Str(<<"a", "/", "b">>)>>)]>>
  /\ output = <<<<"x", "\\">>>>

-----------------------------------------------------------------------------
(* Further properties of searchSessions *)

\* C25: every session in the list searchSessions returns, and every session
\* it has retained so far, has a relevance of at least 1 and at least one
\* user message, whatever the query and the filters.
C25_ReturnedAreRelevant ==
  /\ \A k \in 1..Len(results) :
       results[k].relevance >= 1 /\ Len(results[k].userMessages) >= 1
  /\ \A k \in 1..Len(returned) :
       returned[k].relevance >= 1 /\ Len(returned[k].userMessages) >= 1

\* a query with two terms and a session that scores for both is returned
C25_Witness ==
  /\ pc = "done"
  /\ options.query = Some(<<"A", " ", " ", "b">>)
  /\ Len(returned) >= 1
  /\ returned[1].relevance > 15


\* a query that is not empty and has nothing but whitespace in it
WhitespaceOnly(query) ==
  query.def /\ query.val # <<>> /\ \A k \in 1..Len(query.val) : IsSpace(query.val[k])

\* C27: a query of whitespace only has no terms, so no session is retained
\* for it (a session that reaches the scoring is dropped for relevance 0) and
\* the list searchSessions returns is empty; with the empty or the absent
\* query no session is dropped for its relevance and every session retained
\* or returned has relevance 1.
C27_WhitespaceQueryFindsNothing ==
  /\ WhitespaceOnly(options.query) =>
       /\ queryTerms(options.query.val) = <<>>
       /\ lastExit # "pushed"
       /\ results = <<>>
       /\ returned = <<>>
  /\ ~queryGiven(options) =>
       /\ lastExit # "zeroRelevance"
       /\ \A k \in 1..Len(results) : results[k].relevance = 1
       /\ \A k \in 1..Len(returned) : returned[k].relevance = 1

\* a run with the query " " that dropped its last session for relevance 0
C27_Witness ==
  /\ pc = "done"
  /\ WhitespaceOnly(options.query)
  /\ ~options.days.def /\ ~options.since.def
  /\ i >= 1
  /\ lastExit = "zeroRelevance"


-----------------------------------------------------------------------------
(* The title of a structured export: parseOpenCodeSession on an export,    *)
(* and one searchSessions iteration on the same export                     *)

TitleExports ==
  {Export(Some(<<"s", "1">>), t, d, Times(2), Some(m))
     : t \in {None, Some(<<>>), Some(<<"A", "b">>), Some(<<"x">>)},
       d \in {None, Some(<<"x">>), Some(<<"a", "/", "b">>)},
       m \in {<<>>, <<uAb>>, <<uX, tBare>>, <<tRead>>}}

TitleQueries ==
  {None, Some(<<>>), Some(<<"a">>), Some(<<"x">>), Some(<<"u", "n">>),
   Some(<<"S", " ", "u", "n", " ", "x">>)}

InitTitle ==
  /\ pc = "call"
  /\ input \in [export : TitleExports]
  /\ options \in {NoFilters(q, None) : q \in TitleQueries}
  /\ output = <<>>
  /\ sessionIDs = <<>> /\ i = 0 /\ results = <<>>
  /\ lastExport = "none" /\ lastExit = "none" /\ returned = <<>>
  /\ NoSync

\* parseOpenCodeSession(rawSession)
ParseExport ==
  /\ pc = "call"
  /\ output' = parseOpenCodeSession(input.export)
  /\ pc' = "parsed"
  /\ UNCHANGED <<options, sessionIDs, i, results, lastExport, lastExit, returned, input>>
  /\ UNCHANGED syncVars

\* the body of the for loop of searchSessions on the export
SearchExport ==
  /\ pc = "call"
  /\ LET it == searchIteration(<<>>, Printed(input.export), options) IN
       /\ lastExport' = "json"
       /\ lastExit' = it.exit
       /\ results' = it.results
  /\ pc' = "searched"
  /\ UNCHANGED <<options, sessionIDs, i, returned, input, output>>
  /\ UNCHANGED syncVars

NextTitle == ParseExport \/ SearchExport

SpecTitle == InitTitle /\ [][NextTitle]_vars

\* the export has no info.title, or an empty one
Untitled(export) ==
  ~export.info.val.title.def \/ export.info.val.title.val = <<>>

\* the terms of query q that are substrings of "untitled session"
PlaceholderHits(q) ==
  {sp \in TermSpans(q) : Contains(UntitledSession, TermAt(q, sp))}

\* C28: parseOpenCodeSession returns info.title as the title when that is
\* not empty and "Untitled Session" otherwise; with a query, an untitled
\* export that is retained has 15 points for each query term that is a
\* substring of "untitled session", on top of the points of its other
\* fields, and an untitled export that reaches the scoring with such a term
\* in the query is retained, never dropped for its relevance.
C28_PlaceholderTitleScores ==
  /\ (pc = "parsed" /\ output.tag = "session") =>
       output.val.title = IF Untitled(input.export)
                          THEN Some(UntitledSession)
                          ELSE input.export.info.val.title
  /\ (pc = "searched" /\ Untitled(input.export) /\ queryGiven(options)) =>
       LET q == options.query.val IN
       /\ lastExit = "pushed" =>
            results[1].relevance
              = 15 * Cardinality(PlaceholderHits(q))
                + SumPoints([results[1] EXCEPT !.title = None], q, TermSpans(q))
       /\ PlaceholderHits(q) # {} => lastExit # "zeroRelevance"

\* the export has an empty title and nothing in which s, un or x occurs: it
\* is retained for the query "S un x" with the 30 points of the placeholder
C28_Witness ==
  /\ pc = "searched"
  /\ input.export.info.val.title = Some(<<>>)
  /\ options.query = Some(<<"S", " ", "u", "n", " ", "x">>)
  /\ lastExit = "pushed"
  /\ results[1].title = Some(UntitledSession)
  /\ results[1].relevance = 30


-----------------------------------------------------------------------------
(* Two runs of a sync program, one right after the other, over the same    *)
(* sources                                                                 *)

MaxSources == 2

\* the files findFilesToSync finds, each time with the same content
ResyncFiles ==
  {File(<<lUserE1>>, None),
   \* another file of the directory whose first event has the same sessionId
   File(<<lUserE1, lAssistant>>, None),
   \* no session id anywhere, no user text, no file
   File(<<lUserNoId>>, None),
   File(<<lAssistant>>, None),
   Unreadable}

\* what `opencode export` does for a listed identifier, each time the same
ResyncExports ==
  {ExecThrows,
   Printed(Export(Some(<<"s", "1">>), None, Some(<<"x">>), Times(1), Some(<<uAA>>))),
   Printed(Export(Some(<<"s", "2">>), None, Some(<<"x">>), Times(MaxTime), Some(<<uAb>>))),
   \* no info.id, no user text
   Printed(Export(None, None, Some(<<"x">>), Times(MaxTime), Some(<<uAb>>))),
   Printed(Export(Some(<<"s", "4">>), None, Some(<<"x">>), Times(2), Some(<<tRead>>)))}

ResyncRows ==
  {<<>>,
   syncSession(File(<<lUserE1>>, None), <<>>, [force |-> FALSE, days |-> None],
               <<>>, TRUE).db}

InitResync ==
  /\ pc = "start"
  /\ input \in [program : {"sync.ts"}, sources : SeqsUpTo(ResyncFiles, MaxSources)]
               \cup [program : {"sync-opencode.ts"},
                     sources : SeqsUpTo(ResyncExports, MaxSources)]
  /\ options \in [force : {FALSE}, days : {None, Some(1)}]
  /\ db \in ResyncRows
  /\ existingHashes = <<>> /\ stats = <<>> /\ lastSync = <<>>
  /\ sessionIDs = <<>> /\ i = 0 /\ results = <<>>
  /\ lastExport = "none" /\ lastExit = "none" /\ returned = <<>>
  /\ output = <<>>

\* a run of sync up to its loop, started with or without --force: the stats,
\* the hashes read once
ResyncStart ==
  /\ pc = "start"
  /\ \E force \in BOOLEAN : options' = [options EXCEPT !.force = force]
  /\ stats' = NewStats
  /\ existingHashes' = getExistingHashes(db)
  /\ i' = 0
  /\ pc' = "loop"
  /\ UNCHANGED <<sessionIDs, results, lastExport, lastExit, returned, input, output,
                 db, lastSync>>

\* one iteration of the loop of sync in postgres/sync.ts
ResyncFile ==
  /\ pc = "loop"
  /\ input.program = "sync.ts"
  /\ i < Len(input.sources)
  /\ \E dbOk \in BOOLEAN :
       Synced(syncSession(input.sources[i + 1], existingHashes, options, db, dbOk))

\* one iteration of the loop of sync in postgres/sync-opencode.ts
ResyncExport ==
  /\ pc = "loop"
  /\ input.program = "sync-opencode.ts"
  /\ i < Len(input.sources)
  /\ \E dbOk \in BOOLEAN :
       Synced(syncSessionOpenCode(input.sources[i + 1], existingHashes, options,
                                  db, dbOk))

\* return stats; the next run starts after it
ResyncReturn ==
  /\ pc = "loop"
  /\ i = Len(input.sources)
  /\ returned' = Append(returned, stats)
  /\ pc' = IF Len(returned) = 0 THEN "start" ELSE "done"
  /\ UNCHANGED <<options, sessionIDs, i, results, lastExport, lastExit, input, output>>
  /\ UNCHANGED syncVars

NextResync == ResyncStart \/ ResyncFile \/ ResyncExport \/ ResyncReturn

SpecResync == InitResync /\ [][NextResync]_vars

\* no call of syncSession of the run returned 'error'
NoErrors(st) == st.error = "undefined"

\* C26: when a run of sync has finished with no errors, the run that follows
\* it over the same sources without --force reports no session created and
\* none updated: it skips every source, also when several sources have the
\* same session id. (The database works throughout: the second run ends with
\* no errors either.)
C26_SecondRunSkipsAll ==
  (/\ pc = "done" /\ Len(returned) = 2
   /\ NoErrors(returned[1]) /\ NoErrors(returned[2])
   /\ ~options.force) =>
    /\ returned[2].created = 0
    /\ returned[2].updated = 0
    /\ returned[2].skipped = Len(input.sources)

=============================================================================
